---- MODULE Spec2Model ----
(***************************************************************************)
(* The racing game of the repository: BurgerVehicle (kinematics of the     *)
(* vehicle) and RacingGame (checkpoint cursor, lap counter, lap times).    *)
(*                                                                         *)
(* The source computes on IEEE doubles; the model computes on decimal      *)
(* fixed point, one integer per quantity:                                  *)
(*   speed        in units of 1/(1000 * 2^HalfBits)                        *)
(*   currentTurn  in units of 1/100                                        *)
(*   rotation     in micro-radians                                         *)
(*   position     in micro-units of length                                 *)
(*   Date.now()   in milliseconds                                          *)
(* Math.sin and Math.cos are a Taylor polynomial on milli-radians with a   *)
(* result in 1/1000.                                                       *)
(***************************************************************************)
EXTENDS Integers, Sequences, FiniteSets, TLC

VARIABLES
    position,           \* BurgerVehicle.position: [x, y, z]
    rotation,           \* BurgerVehicle.rotation
    speed,              \* BurgerVehicle.speed
    currentTurn,        \* BurgerVehicle.currentTurn
    keys,               \* engine.input as polled by the last handleInput
    currentCheckpoint,  \* RacingGame.currentCheckpoint
    lapCount,           \* RacingGame.lapCount
    startTime,          \* RacingGame.startTime
    bestTime,           \* RacingGame.bestTime (lap time in ms, or Infinity)
    lapTimes,           \* history: the lapTime computed at each lap completion
    hits,               \* history: checkCheckpoints calls that found distance < 3
    ticks,              \* history: frames since the initial state (Spec, SpecCoast)
    swordPosition,      \* Sword.position: [x, y, z]
    collected,          \* Sword.collected
    floatOffset,        \* Sword.floatOffset
    mesh,               \* Sword.mesh: [position: [x, y, z], rotation: [z]]
    sceneHasMesh,       \* engine.scene holds Sword.mesh
    collisions,         \* history: checkCollision calls that returned true
    removals            \* history: scene.remove calls made by collect

trackVars == <<currentCheckpoint, lapCount, startTime, bestTime, lapTimes, hits>>
raceVars == <<position, rotation, speed, currentTurn, keys, currentCheckpoint,
              lapCount, startTime, bestTime, lapTimes, hits, ticks>>
swordVars == <<swordPosition, collected, floatOffset, mesh, sceneHasMesh,
               collisions, removals>>
vars == <<raceVars, swordVars>>

---------------------------------------------------------------------------
(* Bounds of the model.                                                    *)

\* binary digits kept below 1/1000 of speed: the halvings that stay exact
HalfBits == 10
\* frames explored from each initial vehicle state
MaxTicks == 2
\* laps a behaviour may complete
MaxLaps == 3
\* coasting frames counted (the count stays at this value afterwards)
MaxCoast == 31
\* frames of the run with accelerate held
MaxAccel == 50
\* frames in which an uncollected sword is animated
MaxSwordFrames == 12

---------------------------------------------------------------------------
(* Fixed point.                                                            *)

SpeedUnit == 2 ^ HalfBits
PosScale == 1000 * 1000

Abs(a) == IF a < 0 THEN -a ELSE a
Sign(a) == IF a > 0 THEN 1 ELSE IF a < 0 THEN -1 ELSE 0
Min(a, b) == IF a < b THEN a ELSE b
Max(a, b) == IF a > b THEN a ELSE b
\* a / d rounded to the nearest integer, halves away from zero
RoundDiv(a, d) == Sign(a) * ((Abs(a) + d \div 2) \div d)

PiMilli == 3142
HalfPiMilli == 1571
TwoPiMilli == 6283

\* sin on [0, pi/2], argument in milli-radians, result in 1/1000:
\* x - x^3/6 + x^5/120 - x^7/5040 in Horner form
SinQuadrant(m) ==
    LET t == (m * m) \div 100
        a == 10000 - t \div 42
        b == 10000 - ((t \div 20) * a) \div 10000
        c == 10000 - ((t \div 6) * b) \div 10000
    IN  RoundDiv(m * c, 10000)

SinMilli(m) ==
    LET r == m % TwoPiMilli
    IN  IF r <= HalfPiMilli THEN SinQuadrant(r)
        ELSE IF r <= PiMilli THEN SinQuadrant(PiMilli - r)
        ELSE IF r <= PiMilli + HalfPiMilli THEN -SinQuadrant(r - PiMilli)
        ELSE -SinQuadrant(TwoPiMilli - r)

CosMilli(m) == SinMilli(m + HalfPiMilli)

\* Math.sin / Math.cos of a rotation in micro-radians, result in 1/1000
Sin(rot) == SinMilli(rot \div 1000)
Cos(rot) == CosMilli(rot \div 1000)

---------------------------------------------------------------------------
(* BurgerVehicle.                                                          *)

maxSpeed == 300 * SpeedUnit
acceleration == 8 * SpeedUnit
deceleration == 10 * SpeedUnit
turnSpeed == 3
turnDeadzone == 10 * SpeedUnit
boundary == 50 * PosScale

\* the four intents handleInput derives from keyboard or joystick
KeyStates == [accelerate : BOOLEAN, brake : BOOLEAN,
              turnLeft : BOOLEAN, turnRight : BOOLEAN]

\* handleInput, "Acceleration": the speed after the longitudinal step
LongitudinalWrongFloor(s, k) ==
    IF k.accelerate THEN Min(s + acceleration, maxSpeed)
    ELSE IF k.brake THEN Max(s - (deceleration * 3) \div 2, -maxSpeed)
    ELSE IF s > 0 THEN Max(0, s - deceleration)
    ELSE IF s < 0 THEN Min(0, s + deceleration)
    ELSE s

LongitudinalOvershoot(s, k) ==
    IF k.accelerate THEN Min(s + acceleration, maxSpeed)
    ELSE IF k.brake THEN Max(s - (deceleration * 3) \div 2, -(maxSpeed \div 2))
    ELSE IF s > 0 THEN s - deceleration
    ELSE IF s < 0 THEN s + deceleration
    ELSE s

LongitudinalNoCap(s, k) ==
    IF k.accelerate THEN s + acceleration
    ELSE IF k.brake THEN Max(s - (deceleration * 3) \div 2, -(maxSpeed \div 2))
    ELSE IF s > 0 THEN Max(0, s - deceleration)
    ELSE IF s < 0 THEN Min(0, s + deceleration)
    ELSE s

Longitudinal(s, k) ==
    IF k.accelerate THEN Min(s + acceleration, maxSpeed)
    ELSE IF k.brake THEN Max(s - (deceleration * 3) \div 2, -(maxSpeed \div 2))
    ELSE IF s > 0 THEN Max(0, s - deceleration)
    ELSE IF s < 0 THEN Min(0, s + deceleration)
    ELSE s

\* handleInput, "Turning (only when moving)": currentTurn after the step,
\* s the speed after the longitudinal step
LateralNoReset(t, s, k) ==
    IF k.turnLeft THEN Max(-100, t - turnSpeed)
    ELSE IF k.turnRight THEN Min(100, t + turnSpeed)
    ELSE IF t > 0 THEN Max(0, t - turnSpeed)
    ELSE IF t < 0 THEN Min(0, t + turnSpeed)
    ELSE t

LateralNoClamp(t, s, k) ==
    IF Abs(s) > turnDeadzone
    THEN IF k.turnLeft THEN t - turnSpeed
         ELSE IF k.turnRight THEN t + turnSpeed
         ELSE IF t > 0 THEN Max(0, t - turnSpeed)
         ELSE IF t < 0 THEN Min(0, t + turnSpeed)
         ELSE t
    ELSE 0

Lateral(t, s, k) ==
    IF Abs(s) > turnDeadzone
    THEN IF k.turnLeft THEN Max(-100, t - turnSpeed)
         ELSE IF k.turnRight THEN Min(100, t + turnSpeed)
         ELSE IF t > 0 THEN Max(0, t - turnSpeed)
         ELSE IF t < 0 THEN Min(0, t + turnSpeed)
         ELSE t
    ELSE 0

\* handleInput, "Apply turning to rotation": currentTurn * |speed| * 0.1,
\* in micro-radians
TurnAmount(t, s) == RoundDiv(t * Abs(s), SpeedUnit)

\* applyPhysics: the move along the heading, before the boundary check
MovedX(px, rot, s) == px + RoundDiv(Sin(rot) * s, SpeedUnit)
MovedZ(pz, rot, s) == pz + RoundDiv(Cos(rot) * s, SpeedUnit)

\* applyPhysics, boundary check of one coordinate
ClampOneSide(c) == IF c > boundary THEN boundary ELSE c

Clamp(c) == IF Abs(c) > boundary THEN Sign(c) * boundary ELSE c

\* applyPhysics: speed after the two boundary checks, s the speed moved with
BoundarySpeedOnce(s, mx, mz) ==
    IF Abs(mx) > boundary \/ Abs(mz) > boundary THEN s \div 2 ELSE s

BoundarySpeed(s, mx, mz) ==
    LET s1 == IF Abs(mx) > boundary THEN s \div 2 ELSE s
    IN  IF Abs(mz) > boundary THEN s1 \div 2 ELSE s1

\* the halvings of applyPhysics are exact at the model's resolution
ExactHalving(s, mx, mz) ==
    LET n == (IF Abs(mx) > boundary THEN 1 ELSE 0)
             + (IF Abs(mz) > boundary THEN 1 ELSE 0)
    IN  s % (2 ^ n) = 0

\* the vehicle as a record: [position, rotation, speed, currentTurn]
\* handleInput: speed, currentTurn and rotation after the input step
handleInput(v, k) ==
    LET s1 == Longitudinal(v.speed, k)
        t1 == Lateral(v.currentTurn, s1, k)
    IN  [v EXCEPT !.speed = s1,
                  !.currentTurn = t1,
                  !.rotation = v.rotation + TurnAmount(t1, s1)]

\* applyPhysics: position and speed after the move and the boundary check
applyPhysics(v) ==
    LET mx == MovedX(v.position.x, v.rotation, v.speed)
        mz == MovedZ(v.position.z, v.rotation, v.speed)
    IN  [v EXCEPT !.position = [v.position EXCEPT !.x = Clamp(mx), !.z = Clamp(mz)],
                  !.speed = BoundarySpeed(v.speed, mx, mz)]

\* the move of applyPhysics stays within the resolution of speed
Representable(v) ==
    ExactHalving(v.speed,
                 MovedX(v.position.x, v.rotation, v.speed),
                 MovedZ(v.position.z, v.rotation, v.speed))

\* BurgerVehicle.update (updateMesh and updateCamera only draw)
vehicleUpdate(v, k) == applyPhysics(handleInput(v, k))

\* the vehicle the constructor builds
NewVehicle ==
    [position |-> [x |-> 0, y |-> PosScale \div 2, z |-> 0],
     rotation |-> 0, speed |-> 0, currentTurn |-> 0]

Vehicle ==
    [position |-> position, rotation |-> rotation,
     speed |-> speed, currentTurn |-> currentTurn]

---------------------------------------------------------------------------
(* RacingGame.                                                             *)

trackRadius == 30
trackSegments == 64
checkpointEvery == 8
checkpointRadius == 3
Infinity == 2147483647

\* createTrack: segment i lies at angle (i / trackSegments) * 2 pi
SegmentPoint(i) ==
    LET angle == RoundDiv(i * TwoPiMilli, trackSegments)
    IN  [x |-> CosMilli(angle) * trackRadius * 1000,
         y |-> 0,
         z |-> SinMilli(angle) * trackRadius * 1000]

\* createTrack: the segments that push a checkpoint, in the order pushed
CheckpointSegments ==
    SelectSeq([n \in 1..trackSegments |-> n - 1],
              LAMBDA i : i % checkpointEvery = 0)

NumCheckpoints == Len(CheckpointSegments)

\* RacingGame.checkpoints, indexed from 0 as in the source
checkpoints == [j \in 0..(NumCheckpoints - 1) |-> SegmentPoint(CheckpointSegments[j + 1])]

\* Vector3.distanceTo, squared, in milli-units; differences beyond 4 units
\* saturate (every such distance is far above the radius)
distanceToSq(p, q) ==
    LET dx == RoundDiv(p.x - q.x, 1000)
        dy == RoundDiv(p.y - q.y, 1000)
        dz == RoundDiv(p.z - q.z, 1000)
    IN  IF Abs(dx) > 4000 \/ Abs(dy) > 4000 \/ Abs(dz) > 4000
        THEN 3 * 4000 * 4000
        ELSE dx * dx + dy * dy + dz * dz

\* distance < 3
WithinRadius(p, q) ==
    distanceToSq(p, q) < (checkpointRadius * 1000) * (checkpointRadius * 1000)

\* checkCheckpoints: does this call register a checkpoint?
RegistersAny(vehiclePos, cur) ==
    \E j \in DOMAIN checkpoints : WithinRadius(vehiclePos, checkpoints[j])

Registers(vehiclePos, cur) == WithinRadius(vehiclePos, checkpoints[cur])

\* checkCheckpoints: this.currentCheckpoint++
AdvanceTwice(c) == c + 2

Advance(c) == c + 1

\* checkCheckpoints: has the advanced cursor c completed a lap?
LapCompletedEarly(c) == c >= NumCheckpoints - 1

LapCompletedLate(c) == c > NumCheckpoints

LapCompleted(c) == c >= NumCheckpoints

\* checkCheckpoints: bestTime after a lap of lapTime
NewBestLast(lapTime, best) == lapTime

NewBest(lapTime, best) == IF lapTime < best THEN lapTime ELSE best

\* the values Date.now() - startTime takes at a lap completion (ms), and the
\* time between the two reads of Date.now() in checkCheckpoints
LapDurations == {9500, 11000, 12000}
ClockSteps == {0, 1}

\* RacingGame.checkCheckpoints, vehiclePos the result of vehicle.getPosition()
checkCheckpoints(vehiclePos) ==
    IF Registers(vehiclePos, currentCheckpoint)
    THEN /\ hits' = hits + 1
         /\ IF LapCompleted(Advance(currentCheckpoint))
            THEN /\ lapCount < MaxLaps
                 /\ \E d \in LapDurations, e \in ClockSteps :
                       LET now1 == startTime + d
                           lapTime == now1 - startTime
                       IN  /\ currentCheckpoint' = 0
                           /\ lapCount' = lapCount + 1
                           /\ bestTime' = NewBest(lapTime, bestTime)
                           /\ startTime' = now1 + e
                           /\ lapTimes' = Append(lapTimes, lapTime)
            ELSE /\ currentCheckpoint' = Advance(currentCheckpoint)
                 /\ UNCHANGED <<lapCount, startTime, bestTime, lapTimes>>
    ELSE UNCHANGED trackVars

\* RacingGame.update: vehicle.update, then checkCheckpoints (updateUI and the
\* obstacle rotation only draw)
update(k) ==
    LET v1 == handleInput(Vehicle, k)
        v2 == vehicleUpdate(Vehicle, k)
    IN  /\ Representable(v1)
        /\ keys' = k
        /\ position' = v2.position
        /\ rotation' = v2.rotation
        /\ speed' = v2.speed
        /\ currentTurn' = v2.currentTurn
        /\ checkCheckpoints(v2.position)

\* a frame of RacingGame.update seen from the track: vehicle.update has left
\* the vehicle at p
checkCheckpointsAt(p) ==
    /\ position' = [position EXCEPT !.x = p.x, !.z = p.z]
    /\ UNCHANGED <<rotation, speed, currentTurn, keys>>
    /\ checkCheckpoints(position')

---------------------------------------------------------------------------
(* Sword.  mesh.rotation.z is kept in 1/100 radians, floatOffset in        *)
(* milli-radians, positions in micro-units like the vehicle's.             *)

rotationSpeed == 3
floatSpeed == 1
\* update: Math.sin(floatOffset) * 0.15, from 1/1000 to micro-units
floatAmplitude == 150
\* checkCollision: playerRadius + 0.5, in milli-units
collectMargin == 500

\* constructor: the sword as built from config.position, with the random
\* float offset f; the mesh sits at the position and is added to the scene
NewSword(p, f) ==
    /\ swordPosition = p
    /\ collected = FALSE
    /\ floatOffset = f
    /\ mesh = [position |-> p, rotation |-> [z |-> 0]]
    /\ sceneHasMesh = TRUE
    /\ collisions = 0
    /\ removals = 0

\* update: the mesh after one frame of the rotate and float animation
Animated(m, base, f) ==
    [position |-> [m.position EXCEPT !.y = base.y + SinMilli(f) * floatAmplitude],
     rotation |-> [z |-> m.rotation.z + rotationSpeed]]

swordUpdate ==
    IF collected
    THEN UNCHANGED swordVars
    ELSE /\ mesh.rotation.z < MaxSwordFrames * rotationSpeed
         /\ floatOffset' = floatOffset + floatSpeed
         /\ mesh' = Animated(mesh, swordPosition, floatOffset')
         /\ UNCHANGED <<swordPosition, collected, sceneHasMesh, collisions, removals>>

\* distance < collectDistance
WithinCollectDistance(meshPos, playerPosition, playerRadius) ==
    LET collectDistance == RoundDiv(playerRadius, 1000) + collectMargin
    IN  distanceToSq(meshPos, playerPosition) < collectDistance * collectDistance

CollidesAgain(c, meshPos, playerPosition, playerRadius) ==
    WithinCollectDistance(meshPos, playerPosition, playerRadius)

\* checkCollision: the value returned when collected is c
Collides(c, meshPos, playerPosition, playerRadius) ==
    IF c THEN FALSE
    ELSE WithinCollectDistance(meshPos, playerPosition, playerRadius)

collect ==
    /\ collected' = TRUE
    /\ sceneHasMesh' = FALSE
    /\ removals' = removals + 1

checkCollision(playerPosition, playerRadius) ==
    IF Collides(collected, mesh.position, playerPosition, playerRadius)
    THEN /\ collect
         /\ collisions' = collisions + 1
         /\ UNCHANGED <<swordPosition, floatOffset, mesh>>
    ELSE UNCHANGED swordVars

\* positions swords are placed at
SwordPositions ==
    { [x |-> 5 * PosScale, y |-> (3 * PosScale) \div 2, z |-> -3 * PosScale],
      [x |-> -12 * PosScale, y |-> 4 * PosScale, z |-> 7 * PosScale] }

\* Math.random() * Math.PI * 2, in milli-radians
FloatOffsets == { 0, 785, HalfPiMilli, PiMilli, 4712, TwoPiMilli - 1 }

\* the racing game creates no sword: one is built and never called
IdleSword ==
    NewSword([x |-> 5 * PosScale, y |-> (3 * PosScale) \div 2, z |-> -3 * PosScale], 0)

---------------------------------------------------------------------------
(* Initial states.                                                         *)

NoKeys == [accelerate |-> FALSE, brake |-> FALSE, turnLeft |-> FALSE, turnRight |-> FALSE]

\* RacingGame's field initialisers and constructor
InitTrack ==
    /\ currentCheckpoint = 0
    /\ lapCount = 0
    /\ startTime = 0
    /\ bestTime = Infinity
    /\ lapTimes = <<>>
    /\ hits = 0
    /\ ticks = 0

\* Vehicle states a window of frames starts from: the constructor's state and
\* states the vehicle is driven into (at the walls and corners of the arena,
\* by a checkpoint, at the limits of speed and of steering lock).
\* StartMotions pairs a speed in 1/1000 with a currentTurn in 1/100.  Every
\* speed is a sum of steps of +0.008, -0.015 and 0.01 towards 0, within the limits
\* (0.296 = 37 * 0.008, 0.02 = 5 * 0.008 - 2 * 0.01, -0.012 = 0.008 + 0.01
\* - 2 * 0.015, ...); every currentTurn is a multiple of turnSpeed or the
\* full lock, which steering builds up while |speed| > 0.01 and which lasts
\* while a steering key is held and the speed decays towards the deadzone.
StartPositions ==
    { <<0, 0>>, <<49900000, 5000000>>, <<49900000, 49900000>>,
      <<-49950000, -49950000>>, <<0, -49800000>>, <<30000000, 3200000>> }
StartHeadings == { 0, 785398, 1570796, 3141593, -785398, 10995574 }
StartMotions ==
    { <<0, 0>>, <<300, -100>>, <<300, 0>>, <<-150, 6>>, <<20, 100>>, <<296, 99>>,
      <<-12, -51>>, <<16, -9>> }

StartVehicles ==
    { [position |-> [x |-> p[1], y |-> PosScale \div 2, z |-> p[2]],
       rotation |-> h, speed |-> m[1] * SpeedUnit, currentTurn |-> m[2]] :
      p \in StartPositions, h \in StartHeadings, m \in StartMotions }

InitVehicle(v) ==
    /\ position = v.position
    /\ rotation = v.rotation
    /\ speed = v.speed
    /\ currentTurn = v.currentTurn

Init ==
    /\ InitTrack
    /\ keys = NoKeys
    /\ \E v \in StartVehicles \cup {NewVehicle} : InitVehicle(v)
    /\ IdleSword

Next == /\ ticks < MaxTicks
        /\ ticks' = ticks + 1
        /\ \E k \in KeyStates : update(k)
        /\ UNCHANGED swordVars

Spec == Init /\ [][Next]_vars

---------------------------------------------------------------------------
(* The track alone: every frame leaves the vehicle at one of TrackPositions, *)
(* on, near and just outside each checkpoint, or at the start.               *)

TrackOffsets == { <<0, 0>>, <<2000000, -2000000>>, <<0, 2970000>>, <<0, 3000000>> }

TrackPositions ==
    { [x |-> checkpoints[j].x + o[1], z |-> checkpoints[j].z + o[2]] :
      j \in DOMAIN checkpoints, o \in TrackOffsets }
    \cup { [x |-> 0, z |-> 0] }

InitTrackOnly == InitTrack /\ keys = NoKeys /\ InitVehicle(NewVehicle) /\ IdleSword

NextTrack == /\ \E p \in TrackPositions : checkCheckpointsAt(p)
             /\ UNCHANGED ticks
             /\ UNCHANGED swordVars

SpecTrack == InitTrackOnly /\ [][NextTrack]_vars

---------------------------------------------------------------------------
(* Claims about checkCheckpoints (SpecTrack).                              *)

PrevCheckpoint(c) == (c + NumCheckpoints - 1) % NumCheckpoints
NextCheckpoint(c) == (c + 1) % NumCheckpoints

\* the horizontal distance: distanceTo without the y coordinates
distanceToSqPlanar(p, q) ==
    LET dx == RoundDiv(p.x - q.x, 1000)
        dz == RoundDiv(p.z - q.z, 1000)
    IN  IF Abs(dx) > 4000 \/ Abs(dz) > 4000
        THEN 3 * 4000 * 4000
        ELSE dx * dx + dz * dz

PlanarWithinRadius(p, q) ==
    distanceToSqPlanar(p, q) < (checkpointRadius * 1000) * (checkpointRadius * 1000)

\* C1: the track has K = 8 checkpoints and, counting from currentCheckpoint
\* = 0, the calls that find the vehicle within the radius of the then-current
\* checkpoint move the cursor once each and complete a lap on every K-th of
\* them and on no other: after n such calls lapCount is n div K and the
\* cursor is n mod K, so K of them add exactly 1 to lapCount and leave the
\* cursor at 0.
LapEveryKthHit ==
    /\ NumCheckpoints = 8
    /\ lapCount = hits \div NumCheckpoints
    /\ currentCheckpoint = hits % NumCheckpoints

\* the K-th registering call has just completed the first lap
FirstLapDone ==
    /\ hits = NumCheckpoints
    /\ lapCount = 1
    /\ currentCheckpoint = 0

\* C2: one call moves the cursor by at most one step (and lapCount by at
\* most one), and a call that finds the vehicle inside the radius (even the
\* horizontal one) of the checkpoint registered last changes neither the
\* cursor nor lapCount.
EdgeTriggered ==
    [][ /\ currentCheckpoint' \in {currentCheckpoint, NextCheckpoint(currentCheckpoint)}
        /\ lapCount' \in {lapCount, lapCount + 1}
        /\ (hits > 0 /\ PlanarWithinRadius(position', checkpoints[PrevCheckpoint(currentCheckpoint)]))
              => (currentCheckpoint' = currentCheckpoint /\ lapCount' = lapCount)
      ]_vars

\* the vehicle is still (or again) inside the radius of the checkpoint
\* registered last, away from the point it registered at, and the cursor
\* has not moved on
StaysAtRegistered ==
    /\ hits = 3
    /\ currentCheckpoint = 3
    /\ WithinRadius(position, checkpoints[2])
    /\ position.x # checkpoints[2].x

\* C3: a call that finds the vehicle at distance >= 3 from
\* checkpoints[currentCheckpoint] changes none of currentCheckpoint, lapCount,
\* bestTime, startTime, wherever the vehicle is.
NoRegistrationOutOfOrder ==
    [][ ~WithinRadius(position', checkpoints[currentCheckpoint])
          => UNCHANGED <<currentCheckpoint, lapCount, bestTime, startTime>> ]_vars

\* the vehicle is inside the radius of the checkpoint after the current one,
\* which it has skipped to, and nothing was registered for it
SkippedAhead ==
    /\ hits = 1
    /\ currentCheckpoint = 1
    /\ lapCount = 0
    /\ WithinRadius(position, checkpoints[2])

RECURSIVE MinOf(_)
MinOf(seq) ==
    IF Len(seq) = 0 THEN Infinity
    ELSE LET rest == MinOf(Tail(seq))
         IN  IF Head(seq) < rest THEN Head(seq) ELSE rest

\* C4: bestTime is the minimum of the lap times of all laps completed so far
\* (Infinity before the first), and no step increases it.
BestIsMinimum ==
    /\ [](bestTime = MinOf(lapTimes) /\ Len(lapTimes) = lapCount)
    /\ [][bestTime' <= bestTime]_vars

\* laps of 12.0 s, 9.5 s and 11.0 s, in that order, leave bestTime = 9.5 s
ThreeLapsBest ==
    /\ lapTimes = <<12000, 9500, 11000>>
    /\ bestTime = 9500

\* C5: a call moves the cursor if and only if the horizontal (x, z) distance
\* between the vehicle and checkpoints[currentCheckpoint] is < 3.
PlanarDecides ==
    [][ (currentCheckpoint' # currentCheckpoint)
          <=> PlanarWithinRadius(position', checkpoints[currentCheckpoint]) ]_vars

---------------------------------------------------------------------------
(* Coasting: frames with neither accelerate nor brake held.  The host's    *)
(* animation loop calls update on every frame, hence the fairness.         *)

(* The steering keys are held as they were polled before the window.       *)

CoastKeys == { k \in KeyStates : ~k.accelerate /\ ~k.brake }

InitCoast ==
    /\ InitTrack
    /\ keys \in CoastKeys
    /\ \E v \in StartVehicles \cup {NewVehicle} : InitVehicle(v)
    /\ IdleSword

NextCoast == /\ update(keys)
             /\ ticks' = IF ticks < MaxCoast THEN ticks + 1 ELSE ticks
             /\ UNCHANGED swordVars

SpecCoast == InitCoast /\ [][NextCoast]_vars /\ WF_vars(NextCoast)

---------------------------------------------------------------------------
(* Claims about BurgerVehicle.update (Spec, SpecCoast).                    *)

\* the speed the vehicle moves with in the frame that polls keys'
MovingSpeed == Longitudinal(speed, keys')
\* the position of that frame's move, before the boundary check
MovedToX == MovedX(position.x, rotation', MovingSpeed)
MovedToZ == MovedZ(position.z, rotation', MovingSpeed)
Exceeds(c) == Abs(c) > boundary

\* C6: after every update -maxSpeed * 0.5 <= speed <= maxSpeed.
SpeedWithinLimits ==
    /\ speed <= maxSpeed
    /\ speed >= -(maxSpeed \div 2)
    /\ maxSpeed = 300 * SpeedUnit

\* a frame accelerated to the cap and was halved at the +x wall
CappedThenHalved ==
    /\ ticks > 0
    /\ position.x = boundary
    /\ speed = maxSpeed \div 2
    /\ keys.accelerate

\* C7 as stated: in an update whose move exceeds the boundary the exceeding
\* coordinate becomes +50 or -50, sign kept, and the speed after the update
\* is half the speed moved with, also when both coordinates exceed.
ClampHalvesOnce ==
    [][ /\ Exceeds(MovedToX) => position'.x = Sign(MovedToX) * boundary
        /\ Exceeds(MovedToZ) => position'.z = Sign(MovedToZ) * boundary
        /\ (Exceeds(MovedToX) \/ Exceeds(MovedToZ)) => 2 * speed' = MovingSpeed
      ]_vars

\* C7 amended: the exceeding coordinate becomes +50 or -50, sign kept; the
\* speed after the update is half the speed moved with when one coordinate
\* exceeds and a quarter of it when both do.
ClampHalvesPerAxis ==
    [][ /\ Exceeds(MovedToX) => position'.x = Sign(MovedToX) * boundary
        /\ Exceeds(MovedToZ) => position'.z = Sign(MovedToZ) * boundary
        /\ (Exceeds(MovedToX) /\ ~Exceeds(MovedToZ)) => 2 * speed' = MovingSpeed
        /\ (~Exceeds(MovedToX) /\ Exceeds(MovedToZ)) => 2 * speed' = MovingSpeed
        /\ (Exceeds(MovedToX) /\ Exceeds(MovedToZ)) => 4 * speed' = MovingSpeed
      ]_vars

\* one frame at full speed into the (+50, +50) corner: both clamped, a
\* quarter of the speed left
QuarteredInCorner ==
    /\ ticks = 1
    /\ position.x = boundary
    /\ position.z = boundary
    /\ speed = maxSpeed \div 4

\* C8: without accelerate and brake every update strictly decreases |speed|
\* while speed # 0, never changes its sign and keeps 0 at 0; speed is exactly
\* 0 after maxSpeed / deceleration = 30 updates at the latest, from whatever
\* speed the coasting began.
CoastsToRest ==
    /\ [][ /\ speed # 0 => Abs(speed') < Abs(speed)
           /\ Sign(speed') \in {0, Sign(speed)}
           /\ speed = 0 => speed' = 0 ]_vars
    /\ [](ticks * deceleration >= maxSpeed => speed = 0)

\* at rest after coasting down from full speed, straight ahead from the start
CoastedToRest ==
    /\ ticks = 30
    /\ speed = 0
    /\ position.x = 0
    /\ position.z > 4000000
    /\ position.z < 5000000
    /\ rotation = 0

\* C9: an update whose speed after the longitudinal step is within the turn
\* deadzone (|speed| <= 0.01) sets currentTurn to 0 and leaves rotation as it
\* was, whatever is steered and whatever currentTurn was.
NoTurnInDeadzone ==
    [][ Abs(MovingSpeed) <= turnDeadzone
          => (currentTurn' = 0 /\ rotation' = rotation) ]_vars

\* a second frame of steer-left held at rest
SteeredAtRest ==
    /\ ticks = 2
    /\ keys.turnLeft
    /\ ~keys.accelerate
    /\ ~keys.brake
    /\ speed = 0
    /\ currentTurn = 0
    /\ rotation # 0

\* C10 as stated: currentTurn stays in [-1, 1] and changes by at most
\* turnSpeed in one update.
TurnChangesSlowly ==
    /\ [](currentTurn >= -100 /\ currentTurn <= 100)
    /\ [][Abs(currentTurn' - currentTurn) <= turnSpeed]_vars

\* C10 amended: currentTurn stays in [-1, 1]; it changes by at most turnSpeed
\* in an update whose speed after the longitudinal step is outside the turn
\* deadzone, and is set to 0 at once, whatever it was, by every other update.
TurnChangesSlowlyOrResets ==
    /\ [](currentTurn >= -100 /\ currentTurn <= 100)
    /\ [][ IF Abs(MovingSpeed) > turnDeadzone
           THEN Abs(currentTurn' - currentTurn) <= turnSpeed
           ELSE currentTurn' = 0 ]_vars

\* the frame in which the speed fell to the deadzone with the steering at full lock
LockDropped ==
    /\ ticks = 1
    /\ speed = turnDeadzone
    /\ currentTurn = 0

---------------------------------------------------------------------------
(* Full throttle from the start: accelerate is held on every frame from    *)
(* the constructor's state (origin, heading 0, speed 0); the other keys    *)
(* are held as they were polled before the run.                            *)

AccelKeys == { k \in KeyStates : k.accelerate }

InitAccel ==
    /\ InitTrack
    /\ keys \in AccelKeys
    /\ InitVehicle(NewVehicle)
    /\ IdleSword

NextAccel == /\ ticks < MaxAccel
             /\ ticks' = ticks + 1
             /\ update(keys)
             /\ UNCHANGED swordVars

SpecAccel == InitAccel /\ [][NextAccel]_vars

\* C11: with accelerate held from speed 0, the speed after n updates is
\* n * 0.008 and below 0.3 for n <= 37, and exactly 0.3 (the cap) for every n
\* from 38 to 50.
ReachesCapAt38 ==
    /\ acceleration = 8 * SpeedUnit
    /\ maxSpeed = 300 * SpeedUnit
    /\ ticks <= 37 => (speed = ticks * acceleration /\ speed < maxSpeed)
    /\ (ticks >= 38 /\ ticks <= 50) => speed = maxSpeed

\* the 38th update has just capped the speed
CappedAt38 ==
    /\ ticks = 38
    /\ speed = maxSpeed
    /\ keys.accelerate

\* C12: after construction and after every update the cursor is an index of
\* the checkpoint list: an integer with 0 <= currentCheckpoint <
\* checkpoints.length.
CursorInRange ==
    /\ currentCheckpoint \in Nat
    /\ currentCheckpoint < NumCheckpoints
    /\ currentCheckpoint \in DOMAIN checkpoints

\* the last checkpoint of the second lap is the current one: the cursor has
\* wrapped once and stands at the largest index
CursorAtLastIndex ==
    /\ lapCount = 1
    /\ hits = 2 * NumCheckpoints - 1
    /\ currentCheckpoint = NumCheckpoints - 1

\* C13: after every update the vehicle's position is inside the arena,
\* |x| <= 50 and |z| <= 50, for every key sequence and heading.
InsideArena ==
    /\ Abs(position.x) <= boundary
    /\ Abs(position.z) <= boundary

\* an update in reverse has ended on the wall x = -50
StoppedAtNegativeWall ==
    /\ ticks > 0
    /\ position.x = -boundary
    /\ Abs(position.z) < boundary
    /\ speed < 0

---------------------------------------------------------------------------
(* One sword and the calls made on it: update and checkCollision in any    *)
(* order, the player anywhere around the sword.                            *)

\* playerPosition relative to the sword's position: on it, just inside and
\* just outside the collect distance, where the float decides, above, far
PlayerOffsets ==
    { <<0, 0, 0>>, <<790000, 0, 0>>, <<900000, 0, 0>>, <<0, 990000, 0>>,
      <<0, -150000, 780000>>, <<3000000, 0, 3000000>> }

PlayerRadii == { 300000, 500000 }

PlayerPositions ==
    { [x |-> swordPosition.x + o[1], y |-> swordPosition.y + o[2],
       z |-> swordPosition.z + o[3]] : o \in PlayerOffsets }

InitSword ==
    /\ InitTrack
    /\ keys = NoKeys
    /\ InitVehicle(NewVehicle)
    /\ \E p \in SwordPositions, f \in FloatOffsets : NewSword(p, f)

NextSword ==
    /\ \/ swordUpdate
       \/ \E p \in PlayerPositions, r \in PlayerRadii : checkCollision(p, r)
    /\ UNCHANGED raceVars

SpecSword == InitSword /\ [][NextSword]_vars

\* C14: a sword is collected at most once.  checkCollision returns true at
\* most once; from then on collected stays true, no later checkCollision
\* returns true wherever the player is, the mesh has left the scene by the
\* one scene.remove of collect and stays out, and update changes the mesh no
\* more.
CollectedAtMostOnce ==
    /\ [](/\ collisions <= 1
          /\ collected <=> (collisions = 1)
          /\ removals = collisions
          /\ sceneHasMesh <=> ~collected)
    /\ [][collected => /\ collected'
                       /\ collisions' = collisions
                       /\ removals' = removals
                       /\ sceneHasMesh' = sceneHasMesh
                       /\ mesh' = mesh]_vars

\* an animated sword has been collected
CollectedAfterFloating ==
    /\ collected
    /\ collisions = 1
    /\ mesh.rotation.z >= 2 * rotationSpeed
    /\ mesh.position.y # swordPosition.y

====
